---- MODULE Spec2Model ----
(***************************************************************************)
(* Stylesheet DPI scaling examples of the Qt tutorial notes                *)
(* (src/unnamed/part_000, section "Stylesheet DPI Scaling").               *)
(*                                                                         *)
(* Three example programs build a Qt style sheet from the font height:     *)
(*   RuntimeSolution  lines  994-1014  (qApp->setStyleSheet)               *)
(*   CompleteExample  lines 1074-1123  (main, app.setStyleSheet)           *)
(*   MainWindow       lines 1133-1160  (changeEvent/applyScaledStylesheet) *)
(*   HighDpiOptIn     lines  844-861   (Qt 5 start-up sequence)            *)
(* and the form window of src/simple_layout.cpp (FormSpec).                *)
(***************************************************************************)
EXTENDS Integers, Sequences, FiniteSets, TLC

\* Largest font height the environment reports in the model.
MaxEm == 33
\* Magnitude of the most negative font height the environment reports.
MaxNeg == 4
\* Longest text typed into a line edit of the form.
MaxLen == 3

VARIABLES
    prog,           \* which example program is running
    pc,             \* position of the program
    fontHeight,     \* QFontMetrics(QApplication::font()).height()
    em,             \* local: int em = fm.height()
    sizes,          \* locals holding the scaled sizes (name -> int)
    style,          \* local: QString style / stylesheet
    appStyleSheet,  \* style sheet set on the application object
    winStyleSheet,  \* style sheet set on the MainWindow
    event,          \* the events changeEvent is handling, innermost first
    attributes,     \* application attributes set by QApplication::setAttribute
    appConstructed, \* the QApplication object exists
    nameEdit,       \* m_nameEdit->text()
    emailEdit,      \* m_emailEdit->text()
    statusLabel,    \* m_statusLabel->text()
    clicked         \* the button whose clicked() was handled last

\* State of the Qt 5 start-up sequence.
startupVars == <<attributes, appConstructed>>

\* State of the form window of simple_layout.cpp.
formVars == <<nameEdit, emailEdit, statusLabel, clicked>>

vars == <<prog, pc, fontHeight, em, sizes, style, appStyleSheet,
          winStyleSheet, event, startupVars, formVars>>

Progs == {"RuntimeSolution", "CompleteExample", "MainWindow", "HighDpiOptIn"}

\* Values fm.height() can return: an int, nothing in the code constrains it.
Heights == (0 - MaxNeg)..MaxEm

\* Event types delivered to QWidget::changeEvent that the model distinguishes.
EventTypes == {"ScreenChangeEvent", "ApplicationFontChange", "StyleChange",
               "WindowStateChange"}

NoEvent == << >>

\* The locals before they are assigned / the empty QString.
NoSizes == << >>
EmptyString == << >>

(***************************************************************************)
(* C++ int arithmetic                                                      *)
(***************************************************************************)

\* A plausible slip: '%' typed for '/'.
TruncRem(a, b) == IF a >= 0 THEN a % b ELSE 0 - ((0 - a) % b)

\* A plausible slip: rounding the quotient up instead of truncating it.
TruncDivUp(a, b) == IF a >= 0 THEN (a + b - 1) \div b ELSE 0 - ((0 - a) \div b)

\* int / int (b > 0): the quotient truncated toward zero.
TruncDiv(a, b) == IF a >= 0 THEN a \div b ELSE 0 - ((0 - a) \div b)

\* A plausible slip: em * (3 / 2), whose int quotient 3 / 2 is 1.
MulIntQuotient(e) == e * TruncDiv(3, 2)

\* int x = em * 1.5: the double product converted to int, fraction discarded.
MulOneAndHalf(e) == TruncDiv(3 * e, 2)

(***************************************************************************)
(* QString: a sequence of tokens.  [k |-> "lit", s] is literal text,       *)
(* [k |-> "mark", n] the place marker %n, [k |-> "txt", d] text inserted   *)
(* by arg(), d being its characters.                                       *)
(***************************************************************************)

Lit(s) == [k |-> "lit", s |-> s]
Mark(n) == [k |-> "mark", n |-> n]
Txt(d) == [k |-> "txt", d |-> d]

DigitChar == <<"0", "1", "2", "3", "4", "5", "6", "7", "8", "9">>

RECURSIVE Digits(_)
Digits(n) == IF n < 10 THEN <<DigitChar[n + 1]>>
             ELSE Append(Digits(n \div 10), DigitChar[(n % 10) + 1])

\* The decimal text QString::arg(int) inserts.
IntToStr(v) == IF v < 0 THEN <<"-">> \o Digits(0 - v) ELSE Digits(v)

Markers(t) == {t[i].n : i \in {j \in 1..Len(t) : t[j].k = "mark"}}

LowestMarker(t) == CHOOSE m \in Markers(t) : \A n \in Markers(t) : m <= n

\* A plausible misreading of arg(): only the first occurrence of %m is
\* replaced, a repeated marker is left for the next arg().
RECURSIVE ReplaceFirst(_, _, _)
ReplaceFirst(t, m, d) ==
    IF Len(t) = 0 THEN << >>
    ELSE IF Head(t).k = "mark" /\ Head(t).n = m THEN << Txt(d) >> \o Tail(t)
    ELSE << Head(t) >> \o ReplaceFirst(Tail(t), m, d)

\* t with every marker %m replaced by the text d.
RECURSIVE Replace(_, _, _)
Replace(t, m, d) ==
    IF Len(t) = 0 THEN << >>
    ELSE << IF Head(t).k = "mark" /\ Head(t).n = m THEN Txt(d) ELSE Head(t) >>
         \o Replace(Tail(t), m, d)

\* QString::arg(int): every occurrence of the lowest-numbered marker is
\* replaced by the decimal text of v; a string without markers is unchanged.
Arg(t, v) == IF Markers(t) = {} THEN t
             ELSE Replace(t, LowestMarker(t), IntToStr(v))

(***************************************************************************)
(* The three examples                                                      *)
(***************************************************************************)

\* A plausible slip: the minimum width taken as four line heights.
RuntimeSizesFourLines(e) == [paddingVertical   |-> TruncDiv(e, 4),
                             paddingHorizontal |-> TruncDiv(e, 2),
                             minWidth          |-> e * 4]

\* Step 2 of "The Runtime Solution".
RuntimeSizes(e) == [paddingVertical   |-> TruncDiv(e, 4),
                    paddingHorizontal |-> TruncDiv(e, 2),
                    minWidth          |-> e * 5]

\* "Define all sizes as multiples of em" in the complete example.
CompleteSizes(e) == [smallPadding  |-> TruncDiv(e, 4),
                     mediumPadding |-> TruncDiv(e, 2),
                     largePadding  |-> e,
                     buttonHeight  |-> e * 2,
                     inputHeight   |-> MulOneAndHalf(e),
                     borderRadius  |-> TruncDiv(e, 4),
                     iconSize      |-> e]

ScaledSizes(p, e) == IF p = "RuntimeSolution" THEN RuntimeSizes(e)
                     ELSE CompleteSizes(e)

\* The unit suffix written after every place marker of the templates.
Px == Lit("px")

RuntimeTemplate ==
    << Lit("QPushButton {    padding: "), Mark(1), Px, Lit(" "), Mark(2), Px,
       Lit(";    min-width: "), Mark(3), Px, Lit(";}") >>

CompleteTemplate ==
    << Lit("QPushButton {    padding: "), Mark(1), Px, Lit(" "), Mark(2), Px,
       Lit(";    min-height: "), Mark(3), Px,
       Lit(";    border: 1px solid #999;    border-radius: "), Mark(4), Px,
       Lit(";    background-color: #f0f0f0;}QPushButton:hover {    background-color: #e0e0e0;}QLineEdit {    padding: "),
       Mark(5), Px, Lit(" "), Mark(2), Px,
       Lit(";    min-height: "), Mark(6), Px,
       Lit(";    border: 1px solid #ccc;    border-radius: "), Mark(4), Px,
       Lit(";}") >>

WindowTemplate ==
    << Lit("QPushButton { padding: "), Mark(1), Px, Lit(" "), Mark(2), Px,
       Lit("; }") >>

\* Step 3 of "The Runtime Solution".
RuntimeStyle(s) ==
    Arg(Arg(Arg(RuntimeTemplate, s.paddingVertical), s.paddingHorizontal),
        s.minWidth)

\* "Build the stylesheet" in the complete example.
CompleteStyle(s) ==
    Arg(Arg(Arg(Arg(Arg(Arg(CompleteTemplate,
        s.smallPadding), s.mediumPadding), s.buttonHeight), s.borderRadius),
        TruncDiv(s.smallPadding, 2)), s.inputHeight)

BuildStyle(p, s) == IF p = "RuntimeSolution" THEN RuntimeStyle(s)
                    ELSE CompleteStyle(s)

\* The string MainWindow::applyScaledStylesheet builds from em.
WindowStyle(e) == Arg(Arg(WindowTemplate, TruncDiv(e, 4)), TruncDiv(e, 2))

(***************************************************************************)
(* Initial state: a program is started under some application font.        *)
(***************************************************************************)
Init ==
    /\ prog \in Progs
    /\ pc = "start"
    /\ fontHeight \in Heights
    /\ em = 0
    /\ sizes = NoSizes
    /\ style = EmptyString
    /\ appStyleSheet = EmptyString
    /\ winStyleSheet = EmptyString
    /\ event = NoEvent
    /\ attributes = {}
    /\ appConstructed = (prog # "HighDpiOptIn")
    /\ nameEdit = EmptyString
    /\ emailEdit = EmptyString
    /\ statusLabel = EmptyString
    /\ clicked = "none"

(***************************************************************************)
(* RuntimeSolution and CompleteExample, statement by statement             *)
(***************************************************************************)

\* QFontMetrics fm(QApplication::font()); int em = fm.height();
Measure ==
    /\ prog \in {"RuntimeSolution", "CompleteExample"}
    /\ pc = "start"
    /\ em' = fontHeight
    /\ pc' = "measured"
    /\ UNCHANGED <<startupVars, formVars, prog, fontHeight, sizes, style, appStyleSheet,
                   winStyleSheet, event>>

\* int paddingVertical = em / 4; ...
ComputeSizes ==
    /\ pc = "measured"
    /\ sizes' = ScaledSizes(prog, em)
    /\ pc' = "computed"
    /\ UNCHANGED <<startupVars, formVars, prog, fontHeight, em, style, appStyleSheet,
                   winStyleSheet, event>>

\* QString style = QString("...").arg(...)...;
FormatStyle ==
    /\ pc = "computed"
    /\ style' = BuildStyle(prog, sizes)
    /\ pc' = "built"
    /\ UNCHANGED <<startupVars, formVars, prog, fontHeight, em, sizes, appStyleSheet,
                   winStyleSheet, event>>

\* qApp->setStyleSheet(stylesheet); / app.setStyleSheet(style);
SetAppStyleSheet ==
    /\ pc = "built"
    /\ appStyleSheet' = style
    /\ pc' = "applied"
    /\ UNCHANGED <<startupVars, formVars, prog, fontHeight, em, sizes, style, winStyleSheet, event>>

(***************************************************************************)
(* MainWindow                                                              *)
(***************************************************************************)

\* An activation of changeEvent for an event of type t: pos is the statement
\* it is at ("if", "forward", "return"), fwd the number of times it has
\* passed its event to QMainWindow::changeEvent.
Call(t) == [type |-> t, pos |-> "if", fwd |-> 0]

\* The innermost activation moved to statement p.
MoveTo(p) == << [Head(event) EXCEPT !.pos = p] >> \o Tail(event)

\* MainWindow::applyScaledStylesheet(): measure, format, setStyleSheet.
\* setStyleSheet reports the style change to the window at once: changeEvent
\* is entered for a StyleChange event on top of the activations in caller.
applyScaledStylesheet(caller) ==
    /\ em' = fontHeight
    /\ style' = WindowStyle(fontHeight)
    /\ winStyleSheet' = WindowStyle(fontHeight)
    /\ event' = << Call("StyleChange") >> \o caller

\* MainWindow::MainWindow()
Construct ==
    /\ prog = "MainWindow"
    /\ pc = "start"
    /\ applyScaledStylesheet(event)
    /\ pc' = "exec"
    /\ UNCHANGED <<startupVars, formVars, prog, fontHeight, sizes, appStyleSheet>>

\* The window moves to a screen of another density: Qt rescales the font
\* and sends ScreenChangeEvent to the window.
MoveToScreen ==
    /\ pc = "exec"
    /\ event = NoEvent
    /\ \E h \in Heights : fontHeight' = h
    /\ event' = << Call("ScreenChangeEvent") >>
    /\ UNCHANGED <<startupVars, formVars, prog, pc, em, sizes, style, appStyleSheet, winStyleSheet>>

\* The application font is replaced while the window is on the same screen:
\* the window is sent ApplicationFontChange.
SetFont ==
    /\ pc = "exec"
    /\ event = NoEvent
    /\ \E h \in Heights : fontHeight' = h
    /\ event' = << Call("ApplicationFontChange") >>
    /\ UNCHANGED <<startupVars, formVars, prog, pc, em, sizes, style, appStyleSheet, winStyleSheet>>

\* Any other state change of the window that is reported to changeEvent.
OtherChange ==
    /\ pc = "exec"
    /\ event = NoEvent
    /\ \E t \in EventTypes \ {"ScreenChangeEvent", "ApplicationFontChange"} :
           event' = << Call(t) >>
    /\ UNCHANGED <<startupVars, formVars, prog, pc, fontHeight, em, sizes, style, appStyleSheet,
                   winStyleSheet>>

\* A plausible slip: the event type compared with the wrong constant.
changeEventWrongType ==
    /\ pc = "exec"
    /\ event # NoEvent
    /\ Head(event).pos = "if"
    /\ IF Head(event).type = "WindowStateChange"
       THEN applyScaledStylesheet(MoveTo("forward"))
       ELSE /\ event' = MoveTo("forward")
            /\ UNCHANGED <<em, style, winStyleSheet>>
    /\ UNCHANGED <<startupVars, formVars, prog, pc, fontHeight, sizes, appStyleSheet>>

\* MainWindow::changeEvent(QEvent *event), the if statement:
\* if (event->type() == QEvent::ScreenChangeEvent) applyScaledStylesheet();
changeEvent ==
    /\ pc = "exec"
    /\ event # NoEvent
    /\ Head(event).pos = "if"
    /\ IF Head(event).type = "ScreenChangeEvent"
       THEN applyScaledStylesheet(MoveTo("forward"))
       ELSE /\ event' = MoveTo("forward")
            /\ UNCHANGED <<em, style, winStyleSheet>>
    /\ UNCHANGED <<startupVars, formVars, prog, pc, fontHeight, sizes, appStyleSheet>>

\* A plausible slip: returning right after the style sheet was applied, so
\* a screen change never reaches the base class.
forwardSkippedAfterApply ==
    /\ pc = "exec"
    /\ event # NoEvent
    /\ Head(event).pos = "forward"
    /\ event' = << [Head(event) EXCEPT
                      !.fwd = IF @ = 0 /\ Head(event).type # "ScreenChangeEvent"
                              THEN 1 ELSE @,
                      !.pos = "return"] >> \o Tail(event)
    /\ UNCHANGED <<startupVars, formVars, prog, pc, fontHeight, em, sizes, style, appStyleSheet,
                   winStyleSheet>>

\* MainWindow::changeEvent, the last statement:
\* QMainWindow::changeEvent(event);
forwardToBase ==
    /\ pc = "exec"
    /\ event # NoEvent
    /\ Head(event).pos = "forward"
    /\ event' = << [Head(event) EXCEPT !.fwd = @ + 1, !.pos = "return"] >>
                \o Tail(event)
    /\ UNCHANGED <<startupVars, formVars, prog, pc, fontHeight, em, sizes, style, appStyleSheet,
                   winStyleSheet>>

\* MainWindow::changeEvent returns to whoever sent the event.
returnFromChangeEvent ==
    /\ pc = "exec"
    /\ event # NoEvent
    /\ Head(event).pos = "return"
    /\ event' = Tail(event)
    /\ UNCHANGED <<startupVars, formVars, prog, pc, fontHeight, em, sizes, style, appStyleSheet,
                   winStyleSheet>>

(***************************************************************************)
(* Qt 5 start-up sequence (high DPI opt-in)                                *)
(***************************************************************************)

\* QApplication::setAttribute(Qt::AA_EnableHighDpiScaling);
SetEnableHighDpiScaling ==
    /\ prog = "HighDpiOptIn"
    /\ pc = "start"
    /\ attributes' = attributes \cup {"AA_EnableHighDpiScaling"}
    /\ pc' = "scaling"
    /\ UNCHANGED <<formVars, prog, fontHeight, em, sizes, style,
                   appStyleSheet, winStyleSheet, event, appConstructed>>

\* QApplication::setAttribute(Qt::AA_UseHighDpiPixmaps);
SetUseHighDpiPixmaps ==
    /\ prog = "HighDpiOptIn"
    /\ pc = "scaling"
    /\ attributes' = attributes \cup {"AA_UseHighDpiPixmaps"}
    /\ pc' = "pixmaps"
    /\ UNCHANGED <<formVars, prog, fontHeight, em, sizes, style,
                   appStyleSheet, winStyleSheet, event, appConstructed>>

\* A plausible slip: the application object constructed after the first
\* attribute only, the second one set too late.
ConstructApplicationEarly ==
    /\ prog = "HighDpiOptIn"
    /\ pc = "scaling"
    /\ appConstructed' = TRUE
    /\ pc' = "app"
    /\ UNCHANGED <<formVars, prog, fontHeight, em, sizes, style,
                   appStyleSheet, winStyleSheet, event, attributes>>

\* QApplication app(argc, argv);
ConstructApplication ==
    /\ prog = "HighDpiOptIn"
    /\ pc = "pixmaps"
    /\ appConstructed' = TRUE
    /\ pc' = "app"
    /\ UNCHANGED <<formVars, prog, fontHeight, em, sizes, style,
                   appStyleSheet, winStyleSheet, event, attributes>>

Next ==
    \/ Measure
    \/ ComputeSizes
    \/ FormatStyle
    \/ SetAppStyleSheet
    \/ Construct
    \/ MoveToScreen
    \/ SetFont
    \/ OtherChange
    \/ changeEvent
    \/ forwardToBase
    \/ returnFromChangeEvent
    \/ SetEnableHighDpiScaling
    \/ SetUseHighDpiPixmaps
    \/ ConstructApplication

Spec == Init /\ [][Next]_vars

\* The GUI thread runs a handler it has entered to its end.
FairSpec ==
    /\ Spec
    /\ WF_vars(changeEvent)
    /\ WF_vars(forwardToBase)
    /\ WF_vars(returnFromChangeEvent)

(***************************************************************************)
(* Reading a style sheet back                                              *)
(***************************************************************************)

DigitVal(c) == CHOOSE i \in 0..9 : DigitChar[i + 1] = c

RECURSIVE DigitsVal(_)
DigitsVal(d) == IF Len(d) = 0 THEN 0
                ELSE 10 * DigitsVal(SubSeq(d, 1, Len(d) - 1))
                     + DigitVal(d[Len(d)])

\* The integer a decimal text denotes.
StrToInt(d) == IF d[1] = "-" THEN 0 - DigitsVal(Tail(d)) ELSE DigitsVal(d)

\* The interpolated pixel values of a style sheet, in order of appearance.
RECURSIVE StyleNumbers(_)
StyleNumbers(t) ==
    IF Len(t) = 0 THEN << >>
    ELSE (IF Head(t).k = "txt" THEN << StrToInt(Head(t).d) >> ELSE << >>)
         \o StyleNumbers(Tail(t))

\* The fixed ratio <<numerator, denominator>> of every named size.
Ratio == [paddingVertical   |-> <<1, 4>>,
          paddingHorizontal |-> <<1, 2>>,
          minWidth          |-> <<5, 1>>,
          smallPadding      |-> <<1, 4>>,
          mediumPadding     |-> <<1, 2>>,
          largePadding      |-> <<1, 1>>,
          buttonHeight      |-> <<2, 1>>,
          inputHeight       |-> <<3, 2>>,
          borderRadius      |-> <<1, 4>>,
          iconSize          |-> <<1, 1>>]

Abs(x) == IF x < 0 THEN 0 - x ELSE x

\* x is an integer nearest to num/den (either neighbour on a tie).
IsNearest(x, num, den) == 2 * Abs(den * x - num) <= den

\* x is num/den with the fraction discarded (num >= 0).
IsFloor(x, num, den) == den * x <= num /\ num < den * (x + 1)

SizesComputed == sizes # NoSizes

(***************************************************************************)
(* C1                                                                      *)
(***************************************************************************)

\* C1 (as stated): for every positive base em, every computed size is a
\* non-negative integer equal to em times its ratio rounded to the nearest
\* integer.
C1_RoundedToNearest ==
    (SizesComputed /\ em > 0) =>
        \A n \in DOMAIN sizes :
            /\ sizes[n] >= 0
            /\ IsNearest(sizes[n], Ratio[n][1] * em, Ratio[n][2])

\* C1 (amended): for every positive base em, every computed size is a
\* non-negative integer equal to em times its ratio with the fraction
\* discarded (rounded down, not to the nearest integer).
C1_RoundedDown ==
    (SizesComputed /\ em > 0) =>
        \A n \in DOMAIN sizes :
            /\ sizes[n] >= 0
            /\ IsFloor(sizes[n], Ratio[n][1] * em, Ratio[n][2])

\* A base whose quarter has a fraction above one half has been computed.
C1_Witness ==
    /\ prog = "CompleteExample"
    /\ pc = "computed"
    /\ em = 7
    /\ sizes.smallPadding = 1

(***************************************************************************)
(* C2                                                                      *)
(***************************************************************************)

\* C2: when the measured base em is 0 or negative, the computation fails and
\* yields no dimension at all: the program does not get past the
\* measurement, no size is assigned and no style is formatted from it.
C2_NoDimsFromInvalidBase ==
    (pc # "start" /\ em <= 0) =>
        /\ pc = "measured"
        /\ sizes = NoSizes
        /\ style = EmptyString

(***************************************************************************)
(* C3                                                                      *)
(***************************************************************************)

\* C3: after any sequence of font changes and screen changes, once the
\* window has handled the notification, the pixel values of its style sheet
\* are those built from the current font height.
C3_StyleTracksFont ==
    (prog = "MainWindow" /\ pc = "exec" /\ event = NoEvent) =>
        StyleNumbers(winStyleSheet)
            = <<TruncDiv(fontHeight, 4), TruncDiv(fontHeight, 2)>>

(***************************************************************************)
(* C4                                                                      *)
(***************************************************************************)

\* C4: when the measured base em is 0 or negative, the style sheet applied
\* to the application or to the window is not the one built from em.
C4_FallbackOnInvalidBase ==
    /\ (pc = "applied" /\ em <= 0) =>
           appStyleSheet # BuildStyle(prog, ScaledSizes(prog, em))
    /\ (pc = "exec" /\ em <= 0) => winStyleSheet # WindowStyle(em)

(***************************************************************************)
(* C5                                                                      *)
(***************************************************************************)

\* C5: in every reachable state every pixel value interpolated into an
\* applied style sheet (application or window) is a non-negative integer.
C5_AppliedDimsNonNegative ==
    /\ \A i \in DOMAIN StyleNumbers(appStyleSheet) :
           StyleNumbers(appStyleSheet)[i] >= 0
    /\ \A i \in DOMAIN StyleNumbers(winStyleSheet) :
           StyleNumbers(winStyleSheet)[i] >= 0

(***************************************************************************)
(* C6                                                                      *)
(***************************************************************************)

\* C6 (as stated): for every positive base em, every size computed for the
\* doubled base 2*em is exactly twice the size computed for em.
C6_DoublingExact ==
    (SizesComputed /\ em > 0) =>
        \A n \in DOMAIN sizes : ScaledSizes(prog, 2 * em)[n] = 2 * sizes[n]

\* C6 (amended): for every positive base em, the sizes with an integer ratio
\* (em, em*2, em*5) computed for 2*em are exactly twice those for em; the
\* sizes em/4, em/2 and em*1.5 computed for 2*em are twice those for em or
\* one more, and exactly twice when em is a multiple of 4.
C6_DoublingWithinOne ==
    (SizesComputed /\ em > 0) =>
        \A n \in DOMAIN sizes :
            /\ 2 * sizes[n] <= ScaledSizes(prog, 2 * em)[n]
            /\ ScaledSizes(prog, 2 * em)[n] <= 2 * sizes[n] + 1
            /\ (Ratio[n][2] = 1 \/ em % 4 = 0) =>
                   ScaledSizes(prog, 2 * em)[n] = 2 * sizes[n]

\* A base whose quarter does not double exactly has been computed.
C6_Witness ==
    /\ prog = "RuntimeSolution"
    /\ pc = "computed"
    /\ em = 6
    /\ sizes.paddingVertical = 1
    /\ sizes.minWidth = 30

(***************************************************************************)
(* C7                                                                      *)
(***************************************************************************)

\* C7: for positive bases em < b2, every computed size for em, and every
\* pixel value of the formatted style (which includes the input padding
\* (em/4)/2), is at most the corresponding one for b2.
C7_Monotone ==
    \A b2 \in (em + 1)..(MaxEm + 1) :
        /\ (SizesComputed /\ em > 0) =>
               \A n \in DOMAIN sizes : sizes[n] <= ScaledSizes(prog, b2)[n]
        /\ (pc \in {"built", "applied"} /\ em > 0) =>
               \A i \in DOMAIN StyleNumbers(style) :
                   StyleNumbers(style)[i]
                       <= StyleNumbers(BuildStyle(prog,
                                                  ScaledSizes(prog, b2)))[i]

\* A style with six interpolated values has been formatted for a base that
\* has larger bases above it.
C7_Witness ==
    /\ prog = "CompleteExample"
    /\ pc = "built"
    /\ em = 11
    /\ StyleNumbers(style) = <<2, 5, 22, 2, 1, 5, 16, 2>>

(***************************************************************************)
(* C9                                                                      *)
(***************************************************************************)

\* C9: for the base 16 the computed sizes are quarter 4, half 8, double 32,
\* 1.5x 24 and 5x 80.
C9_Base16 ==
    (SizesComputed /\ em = 16) =>
        /\ prog = "RuntimeSolution" =>
               /\ sizes.paddingVertical = 4
               /\ sizes.paddingHorizontal = 8
               /\ sizes.minWidth = 80
        /\ prog = "CompleteExample" =>
               /\ sizes.smallPadding = 4
               /\ sizes.borderRadius = 4
               /\ sizes.mediumPadding = 8
               /\ sizes.buttonHeight = 32
               /\ sizes.inputHeight = 24

\* The runtime solution has computed and applied its sizes for base 16.
C9_Witness ==
    /\ prog = "RuntimeSolution"
    /\ pc = "applied"
    /\ em = 16
    /\ StyleNumbers(appStyleSheet) = <<4, 8, 80>>

(***************************************************************************)
(* C10                                                                     *)
(***************************************************************************)

\* C10: for the base 32 the computed sizes are quarter 8, half 16,
\* double 64, 1.5x 48 and 5x 160.
C10_Base32 ==
    (SizesComputed /\ em = 32) =>
        /\ prog = "RuntimeSolution" =>
               /\ sizes.paddingVertical = 8
               /\ sizes.paddingHorizontal = 16
               /\ sizes.minWidth = 160
        /\ prog = "CompleteExample" =>
               /\ sizes.smallPadding = 8
               /\ sizes.borderRadius = 8
               /\ sizes.mediumPadding = 16
               /\ sizes.buttonHeight = 64
               /\ sizes.inputHeight = 48

\* The complete example has computed its sizes for base 32.
C10_Witness ==
    /\ prog = "CompleteExample"
    /\ pc = "computed"
    /\ em = 32
    /\ sizes.inputHeight = 48

(***************************************************************************)
(* C11                                                                     *)
(***************************************************************************)

\* C11: for the base 20 the computed sizes are quarter 5, half 10,
\* double 40, 1.5x 30 and 5x 100.
C11_Base20 ==
    (SizesComputed /\ em = 20) =>
        /\ prog = "RuntimeSolution" =>
               /\ sizes.paddingVertical = 5
               /\ sizes.paddingHorizontal = 10
               /\ sizes.minWidth = 100
        /\ prog = "CompleteExample" =>
               /\ sizes.smallPadding = 5
               /\ sizes.borderRadius = 5
               /\ sizes.mediumPadding = 10
               /\ sizes.buttonHeight = 40
               /\ sizes.inputHeight = 30

\* The runtime solution has computed its sizes for base 20.
C11_Witness ==
    /\ prog = "RuntimeSolution"
    /\ pc = "computed"
    /\ em = 20
    /\ sizes.minWidth = 100

(***************************************************************************)
(* C12                                                                     *)
(***************************************************************************)

\* The template of the running example and the values supplied to its
\* arg() calls, in order.
TemplateOf(p) == IF p = "RuntimeSolution" THEN RuntimeTemplate
                 ELSE CompleteTemplate

SuppliedValues(p, s) ==
    IF p = "RuntimeSolution"
    THEN << s.paddingVertical, s.paddingHorizontal, s.minWidth >>
    ELSE << s.smallPadding, s.mediumPadding, s.buttonHeight, s.borderRadius,
            TruncDiv(s.smallPadding, 2), s.inputHeight >>

\* In the formatted string f of template t, the place of every marker %n
\* holds the decimal text of vals[n], everything else is the template's
\* text, no marker is left, and every inserted number is followed by "px".
Interpolated(f, t, vals) ==
    /\ Len(f) = Len(t)
    /\ \A i \in 1..Len(t) :
           IF t[i].k = "mark"
           THEN /\ f[i].k = "txt"
                /\ StrToInt(f[i].d) = vals[t[i].n]
                /\ i < Len(f)
                /\ f[i + 1] = Lit("px")
           ELSE f[i] = t[i]
    /\ \A i \in 1..Len(f) : f[i].k # "mark"

\* C12: in the stylesheet builders the chained arg() calls replace marker %n
\* by the n-th supplied value, every occurrence of a repeated marker gets
\* the same value, no marker is left in the final string, and every
\* interpolated number is immediately followed by "px".
C12_MarkersReplaced ==
    /\ (prog \in {"RuntimeSolution", "CompleteExample"}
            /\ pc \in {"built", "applied"}) =>
           Interpolated(style, TemplateOf(prog), SuppliedValues(prog, sizes))
    /\ (prog = "MainWindow" /\ pc = "exec") =>
           Interpolated(winStyleSheet, WindowTemplate,
                        << TruncDiv(em, 4), TruncDiv(em, 2) >>)

\* The complete example has formatted a style whose six values differ
\* wherever the markers differ.
C12_Witness ==
    /\ prog = "CompleteExample"
    /\ pc = "built"
    /\ em = 24
    /\ StyleNumbers(style) = <<6, 12, 48, 6, 3, 12, 36, 6>>

(***************************************************************************)
(* C13                                                                     *)
(***************************************************************************)

\* The pixel values of the window's style sheet are those of font height h.
WindowStyleBuiltFrom(h) ==
    StyleNumbers(winStyleSheet) = << TruncDiv(h, 4), TruncDiv(h, 2) >>

\* C13: the scaled style sheet is applied when MainWindow is constructed,
\* and whenever changeEvent has received a ScreenChangeEvent the style sheet
\* has been rebuilt from the font height measured at that moment before the
\* event is passed on to QMainWindow::changeEvent.
C13_RebuiltBeforeForward ==
    prog = "MainWindow" =>
        /\ pc = "exec" =>
               /\ winStyleSheet # EmptyString
               /\ WindowStyleBuiltFrom(em)
        /\ \A i \in 1..Len(event) :
               event[i].type = "ScreenChangeEvent" =>
                   /\ event[i].pos = "if" => event[i].fwd = 0
                   /\ event[i].pos # "if" =>
                          /\ em = fontHeight
                          /\ WindowStyleBuiltFrom(fontHeight)

\* A screen change to font height 32 has rebuilt the style and is about to
\* be passed on, not yet forwarded.
C13_Witness ==
    /\ prog = "MainWindow"
    /\ event = << [type |-> "ScreenChangeEvent", pos |-> "forward",
                   fwd |-> 0] >>
    /\ fontHeight = 32
    /\ StyleNumbers(winStyleSheet) = <<8, 16>>

(***************************************************************************)
(* C19                                                                     *)
(***************************************************************************)

\* C19: changeEvent passes every event, of any type, to
\* QMainWindow::changeEvent exactly once before it returns; while it handles
\* an event of a type other than ScreenChangeEvent (such as the StyleChange
\* sent by setStyleSheet itself) the window's style sheet does not change;
\* so the handlers never nest deeper than the screen change and its style
\* change, and every event that is being handled is eventually finished.
C19_ForwardedOnceAndTerminates ==
    /\ [][(event # NoEvent /\ event' = Tail(event)) => Head(event).fwd = 1]_vars
    /\ [][(event # NoEvent /\ Head(event).type # "ScreenChangeEvent")
            => winStyleSheet' = winStyleSheet]_vars
    /\ [](\A i \in 1..Len(event) : event[i].fwd <= 1)
    /\ [](Len(event) <= 2)
    /\ (event # NoEvent) ~> (event = NoEvent)

\* The style change sent by setStyleSheet has been handled and forwarded
\* inside the handler of a screen change, which goes on to forward its own
\* event.
C19_Witness ==
    /\ prog = "MainWindow"
    /\ event = << [type |-> "StyleChange", pos |-> "return", fwd |-> 1],
                  [type |-> "ScreenChangeEvent", pos |-> "forward",
                   fwd |-> 0] >>

(***************************************************************************)
(* C14                                                                     *)
(***************************************************************************)

\* C14: in the Qt 5 start-up sequence the application object never exists
\* while AA_EnableHighDpiScaling or AA_UseHighDpiPixmaps is still unset.
C14_AttributesBeforeApplication ==
    (prog = "HighDpiOptIn" /\ appConstructed) =>
        /\ "AA_EnableHighDpiScaling" \in attributes
        /\ "AA_UseHighDpiPixmaps" \in attributes

\* The start-up sequence has constructed the application object.
C14_Witness ==
    /\ prog = "HighDpiOptIn"
    /\ pc = "app"
    /\ appConstructed
    /\ Cardinality(attributes) = 2

(***************************************************************************)
(* The form window of src/simple_layout.cpp                                *)
(***************************************************************************)

\* Characters typed into the line edits: a whitespace and a letter.
Alphabet == {" ", "a"}

\* The texts a line edit can hold in the model.
Texts == UNION {[1..n -> Alphabet] : n \in 0..MaxLen}

\* QChar::isSpace
isSpace(c) == c = " "

RECURSIVE TrimLeft(_)
TrimLeft(t) == IF Len(t) > 0 /\ isSpace(Head(t)) THEN TrimLeft(Tail(t)) ELSE t

RECURSIVE TrimRight(_)
TrimRight(t) == IF Len(t) > 0 /\ isSpace(t[Len(t)])
                THEN TrimRight(SubSeq(t, 1, Len(t) - 1)) ELSE t

\* A plausible slip: the text taken without trimmed().
untrimmed(t) == t

\* QString::trimmed(): whitespace removed from the start and the end.
trimmed(t) == TrimRight(TrimLeft(t))

\* QString::isEmpty()
isEmpty(t) == Len(t) = 0

\* The warning onSubmit shows.
WarningText == << Lit("⚠ Please fill in all fields.") >>

SubmittedTemplate == << Lit("Submitted: "), Mark(1), Lit(" <"), Mark(2),
                        Lit(">") >>

\* QString::arg(a1, a2): in one pass, the lowest-numbered marker is replaced
\* by a1 and the next one by a2; inserted text is not scanned again.
ArgTexts(t, a1, a2) ==
    Replace(Replace(t, LowestMarker(t), a1),
            LowestMarker(SelectSeq(t, LAMBDA x :
                x.k = "mark" /\ x.n # LowestMarker(t))), a2)

\* MainWindow::MainWindow of simple_layout.cpp has run: empty line edits and
\* an empty status label.
FormInit ==
    /\ prog = "SimpleLayout"
    /\ pc = "exec"
    /\ fontHeight = 0
    /\ em = 0
    /\ sizes = NoSizes
    /\ style = EmptyString
    /\ appStyleSheet = EmptyString
    /\ winStyleSheet = EmptyString
    /\ event = NoEvent
    /\ attributes = {}
    /\ appConstructed = TRUE
    /\ nameEdit = EmptyString
    /\ emailEdit = EmptyString
    /\ statusLabel = EmptyString
    /\ clicked = "none"

styleVars == <<prog, pc, fontHeight, em, sizes, style, appStyleSheet,
               winStyleSheet, event>>

\* The user edits the name field.
EditName ==
    /\ \E t \in Texts : nameEdit' = t
    /\ clicked' = "none"
    /\ UNCHANGED <<styleVars, startupVars, emailEdit, statusLabel>>

\* The user edits the email field.
EditEmail ==
    /\ \E t \in Texts : emailEdit' = t
    /\ clicked' = "none"
    /\ UNCHANGED <<styleVars, startupVars, nameEdit, statusLabel>>

\* A plausible slip: '&&' written for '||'.
onSubmitBothEmpty ==
    /\ IF isEmpty(trimmed(nameEdit)) /\ isEmpty(trimmed(emailEdit))
       THEN statusLabel' = WarningText
       ELSE statusLabel' = ArgTexts(SubmittedTemplate, trimmed(nameEdit),
                                    trimmed(emailEdit))
    /\ clicked' = "Submit"
    /\ UNCHANGED <<styleVars, startupVars, nameEdit, emailEdit>>

\* A plausible slip: the trimmed texts written back to the line edits.
onSubmitWritesBack ==
    /\ IF isEmpty(trimmed(nameEdit)) \/ isEmpty(trimmed(emailEdit))
       THEN statusLabel' = WarningText
       ELSE statusLabel' = ArgTexts(SubmittedTemplate, trimmed(nameEdit),
                                    trimmed(emailEdit))
    /\ nameEdit' = trimmed(nameEdit)
    /\ emailEdit' = trimmed(emailEdit)
    /\ clicked' = "Submit"
    /\ UNCHANGED <<styleVars, startupVars>>

\* MainWindow::onSubmit(), connected to the Submit button.
onSubmit ==
    /\ IF isEmpty(trimmed(nameEdit)) \/ isEmpty(trimmed(emailEdit))
       THEN statusLabel' = WarningText
       ELSE statusLabel' = ArgTexts(SubmittedTemplate, trimmed(nameEdit),
                                    trimmed(emailEdit))
    /\ clicked' = "Submit"
    /\ UNCHANGED <<styleVars, startupVars, nameEdit, emailEdit>>

\* A plausible slip: one of the three clear() calls left out.
onClearKeepsEmail ==
    /\ nameEdit' = EmptyString
    /\ statusLabel' = EmptyString
    /\ clicked' = "Clear"
    /\ UNCHANGED <<styleVars, startupVars, emailEdit>>

\* The lambda connected to the Clear button.
onClear ==
    /\ nameEdit' = EmptyString
    /\ emailEdit' = EmptyString
    /\ statusLabel' = EmptyString
    /\ clicked' = "Clear"
    /\ UNCHANGED <<styleVars, startupVars>>

FormNext ==
    \/ EditName
    \/ EditEmail
    \/ onSubmit
    \/ onClear

FormSpec == FormInit /\ [][FormNext]_vars

\* t consists of whitespace only (or is empty).
AllSpace(t) == \A i \in 1..Len(t) : t[i] = " "

\* t neither starts nor ends with whitespace.
NoOuterSpace(t) == Len(t) = 0 \/ (t[1] # " " /\ t[Len(t)] # " ")

\* t is what is left of s when the whitespace around it is taken away.
IsTrimOf(t, s) ==
    /\ NoOuterSpace(t)
    /\ \E i \in 0..Len(s) : \E j \in i..Len(s) :
           /\ t = SubSeq(s, i + 1, j)
           /\ AllSpace(SubSeq(s, 1, i))
           /\ AllSpace(SubSeq(s, j + 1, Len(s)))

\* The status text "Submitted: n <e>".
SubmittedText(n, e) ==
    << Lit("Submitted: "), Txt(n), Lit(" <"), Txt(e), Lit(">") >>

(***************************************************************************)
(* C15                                                                     *)
(***************************************************************************)

\* C15: after onSubmit the status label shows the warning exactly when the
\* name or the email is empty once the surrounding whitespace is taken away
\* (whitespace-only input counts as empty); otherwise it shows
\* "Submitted: n <e>" with n and e the trimmed name and email.
C15_SubmitStatus ==
    clicked = "Submit" =>
        IF AllSpace(nameEdit) \/ AllSpace(emailEdit)
        THEN statusLabel = WarningText
        ELSE /\ statusLabel # WarningText
             /\ \E n \in Texts : \E e \in Texts :
                    /\ IsTrimOf(n, nameEdit)
                    /\ IsTrimOf(e, emailEdit)
                    /\ statusLabel = SubmittedText(n, e)

\* Submit was clicked with a whitespace-only name and a filled-in email.
C15_Witness ==
    /\ clicked = "Submit"
    /\ nameEdit = << " ", " " >>
    /\ emailEdit = << "a" >>
    /\ statusLabel = WarningText

(***************************************************************************)
(* C16                                                                     *)
(***************************************************************************)

\* C16: after Clear the name field, the email field and the status label
\* are all empty, whatever they held; and a Submit that immediately follows
\* a Clear produces the warning, never a "Submitted" message.
C16_ClearThenSubmit ==
    /\ [](clicked = "Clear" =>
            /\ nameEdit = EmptyString
            /\ emailEdit = EmptyString
            /\ statusLabel = EmptyString)
    /\ [][(clicked = "Clear" /\ clicked' = "Submit")
            => statusLabel' = WarningText]_vars

\* Clear has been clicked and has emptied the form.
C16_Witness ==
    /\ clicked = "Clear"
    /\ nameEdit = EmptyString
    /\ emailEdit = EmptyString
    /\ statusLabel = EmptyString

(***************************************************************************)
(* C17                                                                     *)
(***************************************************************************)

\* C17: the status label is always empty, the warning, or a message
\* "Submitted: n <e>" in which n and e are non-empty and carry no leading or
\* trailing whitespace.
C17_StatusShapes ==
    \/ statusLabel = EmptyString
    \/ statusLabel = WarningText
    \/ /\ Len(statusLabel) = 5
       /\ statusLabel[2].k = "txt"
       /\ statusLabel[4].k = "txt"
       /\ statusLabel = SubmittedText(statusLabel[2].d, statusLabel[4].d)
       /\ Len(statusLabel[2].d) > 0
       /\ Len(statusLabel[4].d) > 0
       /\ NoOuterSpace(statusLabel[2].d)
       /\ NoOuterSpace(statusLabel[4].d)

\* A "Submitted" message built from fields that had surrounding whitespace.
C17_Witness ==
    /\ statusLabel = SubmittedText(<< "a", " ", "a" >>, << "a" >>)
    /\ nameEdit = << "a", " ", "a" >>
    /\ emailEdit = << " ", "a", " " >>

(***************************************************************************)
(* C18                                                                     *)
(***************************************************************************)

\* C18: Submit changes only the status label: the name field and the email
\* field hold the same text after onSubmit as before, surrounding
\* whitespace included, on the warning path and on the success path.
C18_SubmitKeepsFields ==
    [][clicked' = "Submit" =>
           /\ nameEdit' = nameEdit
           /\ emailEdit' = emailEdit]_vars

\* Submit succeeded and the fields still hold their surrounding whitespace.
C18_Witness ==
    /\ clicked = "Submit"
    /\ nameEdit = << " ", "a" >>
    /\ emailEdit = << "a", " " >>
    /\ statusLabel = SubmittedText(<< "a" >>, << "a" >>)

====
